---- MODULE Spec2Model ----
(***************************************************************************)
(* Model of the authentication slice of the acquisitions API:              *)
(*   auth.service.js     (src/unnamed/part_001, lines 1-92)                *)
(*   auth.controller.js  (src/README.md, lines 548-661)                    *)
(*   auth.routes.js      (src/src/routes/auth.routes.js)                   *)
(*   auth.validation.js, jwt.js, cookies.js, user.model.js                 *)
(*                       (as quoted in src/ARCHITECTURE.md)                *)
(*   app.js              (src/unnamed/part_003): the /health route         *)
(*                                                                         *)
(* Text values that the code transforms or measures (names, emails,        *)
(* passwords) are sequences of one-character strings, so that trim,        *)
(* toLowerCase and length are computed.  Messages and enumerations are     *)
(* plain strings.  Optional values are sequences of length 0 or 1, as the  *)
(* result of a drizzle select with limit(1) is.                            *)
(*                                                                         *)
(* A request occupies a slot of req from its arrival to its response; the  *)
(* finished request and its response are then kept in last.  The router    *)
(* mounts signUp on /sign-up and inline handlers on /sign-in and           *)
(* /sign-out; the exported controllers signIn and signOut are modelled as  *)
(* handlers called with a request of their own.  Writes to the logger are  *)
(* left out: no handler reads them back.                                   *)
(***************************************************************************)
EXTENDS Integers, Sequences, FiniteSets, TLC

VARIABLES
  users,    \* the rows of table users
  nextId,   \* the sequence behind users.id (serial)
  now,      \* the clock, in seconds
  env,      \* process.env
  req,      \* per request in flight: the handler's position and locals
  last,     \* the request that finished last, with its response
  jar,      \* the client's cookie store for this origin
  started,  \* number of requests received so far
  held,     \* the token strings a caller of jwttoken holds
  call      \* the last direct call of jwttoken or cookies, with its outcome

vars == <<users, nextId, now, env, req, last, jar, started, held, call>>

----------------------------------------------------------------------------
(* Bounds of the model *)

NumProcs == 2
MaxRequests == 2

Procs == 1..NumProcs

----------------------------------------------------------------------------
(* Program constants *)

SALT_ROUNDS == 10
NAME_MIN == 2
NAME_MAX == 255
EMAIL_MAX == 255
PASSWORD_MIN == 6
PASSWORD_MAX == 128
SIGNIN_PASSWORD_MIN == 1
COOKIE_MAX_AGE == 15 * 60 * 1000
JWT_EXPIRES_IN_DEFAULT == 86400

DEFAULT_JWT_SECRET == "your_jwt_secret_key_Please_Change-on-deployment"

ERR_DUPLICATE == "User with this email already exists"
ERR_INVALID == "Invalid email or password"
ERR_HASHING == "Hashing Error"
ERR_COMPARE == "Password Comparison Error"
\* errors raised by the database driver, not by the service
ERR_UNIQUE == "duplicate key value violates unique constraint users_email_unique"
ERR_STORE == "Failed query"

----------------------------------------------------------------------------
(* Text *)

UpperCase == <<"A","B","C","D","E","F","G","H","I","J","K","L","M",
               "N","O","P","Q","R","S","T","U","V","W","X","Y","Z">>
LowerCase == <<"a","b","c","d","e","f","g","h","i","j","k","l","m",
               "n","o","p","q","r","s","t","u","v","w","x","y","z">>
Digits == {"0","1","2","3","4","5","6","7","8","9"}
WhiteSpace == {" ", "\t", "\n"}

Range(s) == {s[i] : i \in 1..Len(s)}
Letters == Range(UpperCase) \cup Range(LowerCase)

LowerChar(c) ==
  IF \E i \in 1..26 : UpperCase[i] = c
  THEN LowerCase[CHOOSE i \in 1..26 : UpperCase[i] = c]
  ELSE c

\* String.prototype.toLowerCase
toLowerCase(s) == [i \in 1..Len(s) |-> LowerChar(s[i])]

\* String.prototype.trim
trim(s) ==
  LET keep == {i \in 1..Len(s) : s[i] \notin WhiteSpace}
  IN IF keep = {} THEN <<>>
     ELSE LET lo == CHOOSE i \in keep : \A j \in keep : i <= j
              hi == CHOOSE i \in keep : \A j \in keep : j <= i
          IN SubSeq(s, lo, hi)

----------------------------------------------------------------------------
(* auth.validation.js *)

LocalChars == Letters \cup Digits \cup {"_", "'", "+", "-", "."}
LocalLast == Letters \cup Digits \cup {"_", "+", "-"}
DomainChars == Letters \cup Digits \cup {"-"}

\* the address form accepted by z.email(): local@label.(label.)*tld
IsEmail(s) ==
  LET ats == {i \in 1..Len(s) : s[i] = "@"}
  IN /\ Cardinality(ats) = 1
     /\ LET at == CHOOSE i \in ats : TRUE
            dots == {i \in (at + 1)..Len(s) : s[i] = "."}
        IN /\ at > 1
           /\ \A i \in 1..(at - 1) : s[i] \in LocalChars
           /\ s[1] # "."
           /\ s[at - 1] \in LocalLast
           /\ \A i \in 1..(Len(s) - 1) : ~(s[i] = "." /\ s[i + 1] = ".")
           /\ dots # {}
           /\ \A i \in (at + 1)..Len(s) : s[i] \in DomainChars \cup {"."}
           /\ s[at + 1] \in Letters \cup Digits
           /\ \A d \in dots : d < Len(s) /\ s[d + 1] \in Letters \cup Digits
           /\ LET lastDot == CHOOSE d \in dots : \A e \in dots : e <= d
              IN /\ Len(s) - lastDot >= 2
                 /\ \A i \in (lastDot + 1)..Len(s) : s[i] \in Letters

Roles == {"user", "admin"}
NoRole == "undefined"
\* signUpSchema that hands on the email as it was submitted
signUpSchema_rawEmail(body) ==
  LET nameOk  == Len(body.name) >= NAME_MIN /\ Len(body.name) <= NAME_MAX
      emailOk == IsEmail(body.email) /\ Len(body.email) <= EMAIL_MAX
      pwOk    == Len(body.password) >= PASSWORD_MIN
                   /\ Len(body.password) <= PASSWORD_MAX
      roleOk  == body.role \in Roles \cup {NoRole}
  IN [success |-> nameOk /\ emailOk /\ pwOk /\ roleOk,
      issues |-> {f \in {"name", "email", "password", "role"} :
                    \/ f = "name" /\ ~nameOk
                    \/ f = "email" /\ ~emailOk
                    \/ f = "password" /\ ~pwOk
                    \/ f = "role" /\ ~roleOk},
      data |-> [name |-> trim(body.name),
                email |-> body.email,
                password |-> body.password,
                role |-> IF body.role = NoRole THEN "user" ELSE body.role]]

\* signUpSchema whose role is any string
signUpSchema_anyRole(body) ==
  LET nameOk  == Len(body.name) >= NAME_MIN /\ Len(body.name) <= NAME_MAX
      emailOk == IsEmail(body.email) /\ Len(body.email) <= EMAIL_MAX
      pwOk    == Len(body.password) >= PASSWORD_MIN
                   /\ Len(body.password) <= PASSWORD_MAX
  IN [success |-> nameOk /\ emailOk /\ pwOk,
      issues |-> {f \in {"name", "email", "password"} :
                    \/ f = "name" /\ ~nameOk
                    \/ f = "email" /\ ~emailOk
                    \/ f = "password" /\ ~pwOk},
      data |-> [name |-> trim(body.name),
                email |-> trim(toLowerCase(body.email)),
                password |-> body.password,
                role |-> IF body.role = NoRole THEN "user" ELSE body.role]]

\* the checks of a zod string schema run in the order they are chained:
\* a length or format check sees the value as the earlier checks left it
signUpSchema(body) ==
  LET nameOk  == Len(body.name) >= NAME_MIN /\ Len(body.name) <= NAME_MAX
      emailOk == IsEmail(body.email) /\ Len(body.email) <= EMAIL_MAX
      pwOk    == Len(body.password) >= PASSWORD_MIN
                   /\ Len(body.password) <= PASSWORD_MAX
      roleOk  == body.role \in Roles \cup {NoRole}
  IN [success |-> nameOk /\ emailOk /\ pwOk /\ roleOk,
      issues |-> {f \in {"name", "email", "password", "role"} :
                    \/ f = "name" /\ ~nameOk
                    \/ f = "email" /\ ~emailOk
                    \/ f = "password" /\ ~pwOk
                    \/ f = "role" /\ ~roleOk},
      data |-> [name |-> trim(body.name),
                email |-> trim(toLowerCase(body.email)),
                password |-> body.password,
                role |-> IF body.role = NoRole THEN "user" ELSE body.role]]

signInSchema(body) ==
  LET emailOk == IsEmail(body.email)
      pwOk    == Len(body.password) >= SIGNIN_PASSWORD_MIN
  IN [success |-> emailOk /\ pwOk,
      issues |-> {f \in {"email", "password"} :
                    \/ f = "email" /\ ~emailOk
                    \/ f = "password" /\ ~pwOk},
      data |-> [name |-> <<>>,
                email |-> trim(toLowerCase(body.email)),
                password |-> body.password,
                role |-> NoRole]]

----------------------------------------------------------------------------
(* bcrypt, as used by auth.service.js *)

Salts == {"s1", "s2"}

Reverse(s) == [i \in 1..Len(s) |-> s[Len(s) + 1 - i]]

\* bcrypt.hash(password, rounds) with the salt it generated: the string
\* $2b$<rounds>$<salt><digest>.  The reversed password stands for the digest,
\* a function of (salt, password) that is injective in the password.
bcryptHash(password, rounds, salt) ==
  <<"$2b$", ToString(rounds), "$", salt>> \o Reverse(password)

\* bcrypt.compare re-hashes the candidate with the cost and salt read from the
\* hash; a string that is no bcrypt hash compares false
bcryptCompare(password, hashed) ==
  /\ Len(hashed) >= 4
  /\ hashed[1] = "$2b$"
  /\ hashed[3] = "$"
  /\ <<hashed[1], hashed[2], hashed[3], hashed[4]>> \o Reverse(password)
       = hashed

\* comparePassword that assumes the salt instead of reading it from the hash
comparePassword_fixedSalt(password, hashedPassword) ==
  bcryptHash(password, SALT_ROUNDS, CHOOSE x \in Salts : TRUE) = hashedPassword

hashPassword(password, salt) == bcryptHash(password, SALT_ROUNDS, salt)

comparePassword(password, hashedPassword) ==
  bcryptCompare(password, hashedPassword)

----------------------------------------------------------------------------
(* user.model.js and the queries of auth.service.js *)

\* the select built but not awaited: the caller sees no rows
SelectByEmail_notAwaited(tbl, email) == SubSeq(<<>>, 1, 0)

\* db.select().from(users).where(eq(users.email, email)).limit(1)
SelectByEmail(tbl, email) ==
  LET hits == {r \in tbl : r.email = email}
  IN IF hits = {} THEN <<>>
     ELSE <<CHOOSE r \in hits : \A q \in hits : r.id <= q.id>>

\* the unique index on users.email
ViolatesUnique(tbl, email) == \E r \in tbl : r.email = email
\* NewRow that leaves role to the column default
NewRow_columnDefaultRole(id, values, ts) ==
  [id |-> id, name |-> values.name, email |-> values.email,
   password |-> values.password, role |-> "user",
   created_at |-> ts, updated_at |-> ts]

NewRow(id, values, ts) ==
  [id |-> id, name |-> values.name, email |-> values.email,
   password |-> values.password, role |-> values.role,
   created_at |-> ts, updated_at |-> ts]

\* a returning clause that reports the column default instead of the role
Returning_defaultRole(row) ==
  [id |-> row.id, name |-> row.name, email |-> row.email,
   role |-> "user", createdAt |-> row.created_at]

\* .returning({id, name, email, role, createdAt})
Returning(row) ==
  [id |-> row.id, name |-> row.name, email |-> row.email,
   role |-> row.role, createdAt |-> row.created_at]

\* InsertUser on a table whose email column has no unique index
InsertUser_noUniqueIndex(tbl, id, values, ts) ==
  [error |-> "", table |-> tbl \cup {NewRow(id, values, ts)},
   rows |-> <<Returning(NewRow(id, values, ts))>>]
\* InsertUser as an upsert: a row with the email is replaced by the new one
InsertUser_upsert(tbl, id, values, ts) ==
  [error |-> "",
   table |-> {r \in tbl : r.email # values.email}
               \cup {NewRow(id, values, ts)},
   rows |-> <<Returning(NewRow(id, values, ts))>>]

\* db.insert(users).values(values).returning(...): the outcome of the statement
InsertUser(tbl, id, values, ts) ==
  IF ViolatesUnique(tbl, values.email)
  THEN [error |-> ERR_UNIQUE, table |-> tbl, rows |-> <<>>]
  ELSE [error |-> "", table |-> tbl \cup {NewRow(id, values, ts)},
        rows |-> <<Returning(NewRow(id, values, ts))>>]

\* the object authenticateUser returns
PublicUser(user) ==
  [id |-> user.id, name |-> user.name, email |-> user.email,
   role |-> user.role, createdAt |-> user.created_at]

----------------------------------------------------------------------------
(* jwt.js *)

JWT_SECRET(e) ==
  IF e.JWT_SECRET = <<>> THEN DEFAULT_JWT_SECRET ELSE e.JWT_SECRET[1]
\* JWT_EXPIRES_IN that gives a token the lifetime of its cookie
JWT_EXPIRES_IN_asCookie(e) == COOKIE_MAX_AGE \div 1000

JWT_EXPIRES_IN(e) ==
  IF e.JWT_EXPIRES_IN = <<>> THEN JWT_EXPIRES_IN_DEFAULT
  ELSE e.JWT_EXPIRES_IN[1]

\* the registered claims jwt.sign adds to the payload
Claims(payload, iat, exp) ==
  [id |-> payload.id, email |-> payload.email, role |-> payload.role,
   iat |-> iat, exp |-> exp]

TokenFields == {"id", "email", "role", "iat", "exp", "sig"}

\* the HMAC of the encoded header and payload under secret: a function of
\* both that is injective in each
HS256(secret, claims) == [key |-> secret, over |-> claims]

\* jwt.sign(payload, secret, {expiresIn}) at time t: the claims and their
\* signature
jwtSign(payload, secret, expiresIn, t) ==
  LET claims == Claims(payload, t, t + expiresIn)
  IN [id |-> claims.id, email |-> claims.email, role |-> claims.role,
      iat |-> claims.iat, exp |-> claims.exp, sig |-> HS256(secret, claims)]

jwttoken_sign(payload, e, t) ==
  jwtSign(payload, JWT_SECRET(e), JWT_EXPIRES_IN(e), t)

\* a call that returned value
Returned(value) ==
  [ok |-> TRUE, value |-> <<value>>, name |-> "", message |-> ""]

\* a call that threw new name(message)
Thrown(name, message) ==
  [ok |-> FALSE, value |-> <<>>, name |-> name, message |-> message]

\* jwt.verify that does not look at exp
jwtVerify_ignoreExpiration(token, secret, t) ==
  IF DOMAIN token # TokenFields
  THEN Thrown("JsonWebTokenError", "jwt malformed")
  ELSE IF token.sig # HS256(secret, Claims(token, token.iat, token.exp))
  THEN Thrown("JsonWebTokenError", "invalid signature")
  ELSE Returned(Claims(token, token.iat, token.exp))

\* jwt.verify(token, secret) at time t: the string must have the three parts
\* of a token, then the signature must be that of the header and payload
\* under secret, then exp must lie ahead; the decoded payload is returned
jwtVerify(token, secret, t) ==
  IF DOMAIN token # TokenFields
  THEN Thrown("JsonWebTokenError", "jwt malformed")
  ELSE IF token.sig # HS256(secret, Claims(token, token.iat, token.exp))
  THEN Thrown("JsonWebTokenError", "invalid signature")
  ELSE IF t >= token.exp
  THEN Thrown("TokenExpiredError", "jwt expired")
  ELSE Returned(Claims(token, token.iat, token.exp))

jwttoken_verify(token, e, t) == jwtVerify(token, JWT_SECRET(e), t)

----------------------------------------------------------------------------
(* cookies.js *)

\* {...a, ...b}
Spread(a, b) ==
  [k \in DOMAIN a \cup DOMAIN b |-> IF k \in DOMAIN b THEN b[k] ELSE a[k]]

cookies_getOptions(e) ==
  [httpOnly |-> TRUE,
   secure |-> (e.NODE_ENV = "production"),
   sameSite |-> "strict",
   maxAge |-> COOKIE_MAX_AGE]

NoOptions == [x \in {} |-> TRUE]

\* res.cookie(name, value, {...cookies.getOptions(), ...options})
cookies_set(name, value, options, e) ==
  [name |-> name, value |-> <<value>>,
   options |-> Spread(cookies_getOptions(e), options)]

\* res.clearCookie(name, {...cookies.getOptions(), maxAge: 0})
cookies_clear(name, options, e) ==
  [name |-> name, value |-> <<>>,
   options |-> Spread(Spread(cookies_getOptions(e), options),
                      [maxAge |-> 0])]

\* what the client keeps after a response carrying Set-Cookie headers
JarAfter(j, setCookie, t) ==
  IF setCookie = <<>> THEN j
  ELSE IF setCookie[1].value = <<>> \/ setCookie[1].options.maxAge = 0
       THEN <<>>
       ELSE <<[name |-> setCookie[1].name, value |-> setCookie[1].value[1],
               expires |-> t + (setCookie[1].options.maxAge \div 1000)]>>

----------------------------------------------------------------------------
(* Requests *)

Str_Alice == <<"A","l","i","c","e">>
Str_Bob == <<"B","o","b">>
Str_a_x_co == <<"a","@","x",".","c","o">>
Str_A_x_co == <<"A","@","x",".","c","o">>
Str_b_x_co == <<"b","@","x",".","c","o">>
Str_secret1 == <<"s","e","c","r","e","t","1">>
Str_secret2 == <<"s","e","c","r","e","t","2">>
Str_short == <<"a","b","c">>
Str_B == <<"B">>
Str_A_sp == <<"A"," ">>
Str_bx_co == <<"b","x",".","c","o">>
Str_ALICE_x_com_sp == <<"A","L","I","C","E","@","x",".","c","o","m"," ">>
Str_tooLong == [i \in 1..(PASSWORD_MAX + 1) |-> "p"]

\* bodies posted to /sign-up: two spellings of one address, a second address,
\* the address of the end-to-end example, a name of one letter and a blank,
\* a name of one letter and a blank, and one body per rule of the schema
\* that it breaks
SignUpBodies ==
  { [name |-> Str_Alice, email |-> Str_A_x_co, password |-> Str_secret1,
     role |-> NoRole],
    [name |-> Str_Bob, email |-> Str_a_x_co, password |-> Str_secret2,
     role |-> "admin"],
    [name |-> Str_Bob, email |-> Str_b_x_co, password |-> Str_secret2,
     role |-> "user"],
    [name |-> Str_Alice, email |-> Str_ALICE_x_com_sp,
     password |-> Str_secret1, role |-> NoRole],
    [name |-> Str_A_sp, email |-> Str_b_x_co, password |-> Str_secret1,
     role |-> "user"],
    [name |-> Str_Bob, email |-> Str_b_x_co, password |-> Str_short,
     role |-> "user"],
    [name |-> Str_Bob, email |-> Str_b_x_co, password |-> Str_tooLong,
     role |-> "user"],
    [name |-> Str_B, email |-> Str_b_x_co, password |-> Str_secret1,
     role |-> "user"],
    [name |-> Str_Bob, email |-> Str_bx_co, password |-> Str_secret1,
     role |-> "user"],
    [name |-> Str_Bob, email |-> Str_b_x_co, password |-> Str_secret1,
     role |-> "root"] }

SignInBodies ==
  { [name |-> <<>>, email |-> Str_a_x_co, password |-> Str_secret1,
     role |-> NoRole],
    [name |-> <<>>, email |-> Str_A_x_co, password |-> Str_secret2,
     role |-> NoRole],
    [name |-> <<>>, email |-> Str_b_x_co, password |-> Str_secret1,
     role |-> NoRole],
    [name |-> <<>>, email |-> Str_a_x_co, password |-> <<>>,
     role |-> NoRole],
    [name |-> <<>>, email |-> Str_a_x_co, password |-> Str_short,
     role |-> NoRole] }

\* bodies posted to the inline handlers of the router
PostedBodies ==
  { [name |-> <<>>, email |-> Str_a_x_co, password |-> Str_secret1,
     role |-> NoRole],
    [name |-> <<>>, email |-> Str_b_x_co, password |-> Str_secret2,
     role |-> NoRole] }

EmptyBody == [name |-> <<>>, email |-> <<>>, password |-> <<>>, role |-> NoRole]
NoBody == [none |-> TRUE]

\* a request slot: req, the handler's locals, and res
IdleReq ==
  [route |-> "", handler |-> "", pc |-> "idle",
   body |-> EmptyBody, cookies |-> <<>>, epoch |-> 0,
   data |-> EmptyBody, existingUser |-> <<>>, passwordHash |-> <<>>,
   user |-> <<>>, error |-> "",
   status |-> 0, resBody |-> NoBody, setCookie |-> <<>>, nextErr |-> ""]

\* the cookies the client sends: those of its store that have not expired
LiveJar(j, t) == IF j # <<>> /\ j[1].expires > t THEN j ELSE <<>>

\* a request arrives in a free slot and is dispatched to a handler
Receive(p, route, handler, body, cks) ==
  [IdleReq EXCEPT !.route = route, !.handler = handler, !.body = body,
                  !.cookies = cks, !.epoch = nextId]

\* the request takes the first free slot
CanReceive(p) ==
  /\ req[p].pc = "idle"
  /\ \A q \in Procs : q < p => req[q].pc # "idle"
  /\ started < MaxRequests

\* requests arrive one second apart
Arrival ==
  /\ started' = started + 1
  /\ now' = now + 1

\* res.status(status).json(body), with the Set-Cookie header written before it
Respond(r, status, body, setCookie) ==
  [r EXCEPT !.pc = "done", !.status = status, !.resBody = body,
            !.setCookie = setCookie]

\* next(e)
Forward(r, e) == [r EXCEPT !.pc = "done", !.nextErr = e]

\* slot p goes on to its next await as r1
Await(p, r1) ==
  /\ req' = [req EXCEPT ![p] = r1]
  /\ UNCHANGED <<last, jar>>

\* slot p has finished as r1: the response reaches the client
Finish(p, r1) ==
  /\ req' = [req EXCEPT ![p] = IdleReq]
  /\ last' = r1
  /\ jar' = JarAfter(jar, r1.setCookie, now)

----------------------------------------------------------------------------
(* auth.controller.js: signUp, with createUser of auth.service.js inlined  *)
(* at its awaits.  A step runs from the completion of one awaited          *)
(* operation to the start of the next one, or to the response.             *)

ValidationFailed(issues) ==
  [errors |-> "Validation failed", details |-> issues]
\* signUp_catch that answers 500 itself and forwards the error as well
signUp_catch_respondsAndForwards(r, e) ==
  IF e = ERR_DUPLICATE
  THEN Respond([r EXCEPT !.error = e], 409,
               [error |-> "Email already exists"], <<>>)
  ELSE Forward(Respond([r EXCEPT !.error = e], 500,
                       [error |-> "Internal server error"], <<>>), e)

\* the catch block of signUp
signUp_catch(r, e) ==
  IF e = ERR_DUPLICATE
  THEN Respond([r EXCEPT !.error = e], 409,
               [error |-> "Email already exists"], <<>>)
  ELSE Forward([r EXCEPT !.error = e], e)

\* signUp after createUser has returned user
signUp_registered(r, user, e, t) ==
  LET token == jwttoken_sign([id |-> user.id, email |-> user.email,
                              role |-> user.role], e, t)
  IN Respond([r EXCEPT !.user = <<user>>], 201,
             [message |-> "User registered",
              user |-> [id |-> user.id, name |-> user.name,
                        email |-> user.email, role |-> user.role]],
             <<cookies_set("token", token, NoOptions, e)>>)

\* POST /sign-up is routed to signUp: validation, then createUser starts
\* its lookup
signUp(p, body) ==
  /\ CanReceive(p)
  /\ LET r == Receive(p, "/sign-up", "signUp", body, LiveJar(jar, now))
         validationResult == signUpSchema(body)
     IN IF ~validationResult.success
        THEN Finish(p, Respond(r, 400,
                               ValidationFailed(validationResult.issues), <<>>))
        ELSE Await(p, [r EXCEPT !.pc = "createUser_select",
                                !.data = validationResult.data])
  /\ Arrival
  /\ UNCHANGED <<users, nextId, env, held, call>>
\* createUser_select that takes a failed lookup for an empty one and goes on
createUser_select_goesOn(p) ==
  /\ req[p].pc = "createUser_select"
  /\ \E storeOk \in BOOLEAN :
       LET r == req[p]
           existingUser == SelectByEmail(users, r.data.email)
       IN IF ~storeOk
          THEN Await(p, [r EXCEPT !.pc = "createUser_hash",
                                  !.error = ERR_STORE])
          ELSE IF Len(existingUser) > 0
          THEN Finish(p, signUp_catch([r EXCEPT !.existingUser = existingUser],
                                      ERR_DUPLICATE))
          ELSE Await(p, [r EXCEPT !.pc = "createUser_hash"])
  /\ UNCHANGED <<users, nextId, now, env, started, held, call>>

\* createUser: the select completes
createUser_select(p) ==
  /\ req[p].pc = "createUser_select"
  /\ \E storeOk \in BOOLEAN :
       LET r == req[p]
           existingUser == SelectByEmail(users, r.data.email)
       IN IF ~storeOk
          THEN Finish(p, signUp_catch(r, ERR_STORE))
          ELSE IF Len(existingUser) > 0
          THEN Finish(p, signUp_catch([r EXCEPT !.existingUser = existingUser],
                                      ERR_DUPLICATE))
          ELSE Await(p, [r EXCEPT !.pc = "createUser_hash"])
  /\ UNCHANGED <<users, nextId, now, env, started, held, call>>
\* createUser_hash that goes on to the insert with the submitted password
\* when hashPassword throws
createUser_hash_plaintextFallback(p) ==
  /\ req[p].pc = "createUser_hash"
  /\ \E hashOk \in BOOLEAN, salt \in Salts :
       LET r == req[p]
       IN Await(p, [r EXCEPT !.pc = "createUser_insert",
                             !.passwordHash =
                                IF hashOk
                                THEN <<hashPassword(r.data.password, salt)>>
                                ELSE <<r.data.password>>])
  /\ UNCHANGED <<users, nextId, now, env, started, held, call>>

\* createUser: hashPassword completes
createUser_hash(p) ==
  /\ req[p].pc = "createUser_hash"
  /\ \E hashOk \in BOOLEAN, salt \in Salts :
       LET r == req[p]
       IN IF ~hashOk
          THEN /\ salt = CHOOSE x \in Salts : TRUE
               /\ Finish(p, signUp_catch(r, ERR_HASHING))
          ELSE Await(p, [r EXCEPT !.pc = "createUser_insert",
                                  !.passwordHash =
                                     <<hashPassword(r.data.password, salt)>>])
  /\ UNCHANGED <<users, nextId, now, env, started, held, call>>

\* createUser_values storing the password as submitted
createUser_values_plaintext(r) ==
  [name |-> r.data.name, email |-> r.data.email,
   password |-> r.data.password, role |-> r.data.role]

\* the values createUser hands to insert
createUser_values(r) ==
  [name |-> r.data.name, email |-> r.data.email,
   password |-> r.passwordHash[1], role |-> r.data.role]

\* createUser: the insert completes; on success signUp signs the token,
\* sets the cookie and responds
createUser_insert(p) ==
  /\ req[p].pc = "createUser_insert"
  /\ \E storeOk \in BOOLEAN :
       LET r == req[p]
           res == InsertUser(users, nextId, createUser_values(r), now)
       IN IF ~storeOk
          THEN /\ Finish(p, signUp_catch(r, ERR_STORE))
               /\ UNCHANGED <<users, nextId>>
          ELSE /\ users' = res.table
               /\ nextId' = nextId + 1
               /\ IF res.error # ""
                  THEN Finish(p, signUp_catch(r, res.error))
                  ELSE Finish(p, signUp_registered(r, res.rows[1], env, now))
  /\ UNCHANGED <<now, env, started, held, call>>

----------------------------------------------------------------------------
(* auth.controller.js: signIn, with authenticateUser inlined at its awaits *)
\* signIn_catch that signs a guest token for the refused email
signIn_catch_guestToken(r, e) ==
  IF e = ERR_INVALID
  THEN Respond([r EXCEPT !.error = e], 401, [error |-> ERR_INVALID],
               <<cookies_set("token",
                             jwttoken_sign([id |-> 0, email |-> r.data.email,
                                            role |-> "user"], env, now),
                             NoOptions, env)>>)
  ELSE Forward([r EXCEPT !.error = e], e)

\* signIn_catch telling an unknown email from a wrong password
signIn_catch_userNotFound(r, e) ==
  IF e = ERR_INVALID
  THEN IF r.existingUser = <<>>
       THEN Respond([r EXCEPT !.error = e], 404, [error |-> "User not found"],
                    <<>>)
       ELSE Respond([r EXCEPT !.error = e], 401, [error |-> ERR_INVALID], <<>>)
  ELSE Forward([r EXCEPT !.error = e], e)

\* the catch block of signIn
signIn_catch(r, e) ==
  IF e = ERR_INVALID
  THEN Respond([r EXCEPT !.error = e], 401, [error |-> ERR_INVALID], <<>>)
  ELSE Forward([r EXCEPT !.error = e], e)

\* signIn after authenticateUser has returned user
signIn_authenticated(r, user, e, t) ==
  LET token == jwttoken_sign([id |-> user.id, email |-> user.email,
                              role |-> user.role], e, t)
  IN Respond([r EXCEPT !.user = <<user>>], 200,
             [message |-> "User signed in",
              user |-> [id |-> user.id, name |-> user.name,
                        email |-> user.email, role |-> user.role]],
             <<cookies_set("token", token, NoOptions, e)>>)

\* the signIn controller is called with a request: validation, then
\* authenticateUser starts its lookup
signIn(p, body) ==
  /\ CanReceive(p)
  /\ LET r == Receive(p, "", "signIn", body, LiveJar(jar, now))
         validationResult == signInSchema(body)
     IN IF ~validationResult.success
        THEN Finish(p, Respond(r, 400,
                               ValidationFailed(validationResult.issues), <<>>))
        ELSE Await(p, [r EXCEPT !.pc = "authenticateUser_select",
                                !.data = validationResult.data])
  /\ Arrival
  /\ UNCHANGED <<users, nextId, env, held, call>>

\* authenticateUser: the select completes
authenticateUser_select(p) ==
  /\ req[p].pc = "authenticateUser_select"
  /\ \E storeOk \in BOOLEAN :
       LET r == req[p]
           found == SelectByEmail(users, r.data.email)
       IN IF ~storeOk
          THEN Finish(p, signIn_catch(r, ERR_STORE))
          ELSE IF found = <<>>
          THEN Finish(p, signIn_catch(r, ERR_INVALID))
          ELSE Await(p, [r EXCEPT !.pc = "authenticateUser_compare",
                                  !.existingUser = found])
  /\ UNCHANGED <<users, nextId, now, env, started, held, call>>

\* authenticateUser: comparePassword completes; on success signIn signs the
\* token, sets the cookie and responds
authenticateUser_compare(p) ==
  /\ req[p].pc = "authenticateUser_compare"
  /\ \E compareOk \in BOOLEAN :
       LET r == req[p]
           user == r.existingUser[1]
           isPasswordValid == comparePassword(r.data.password, user.password)
       IN IF ~compareOk
          THEN Finish(p, signIn_catch(r, ERR_COMPARE))
          ELSE IF ~isPasswordValid
          THEN Finish(p, signIn_catch(r, ERR_INVALID))
          ELSE Finish(p, signIn_authenticated(r, PublicUser(user), env, now))
  /\ UNCHANGED <<users, nextId, now, env, started, held, call>>

\* the signOut controller is called with a request
signOut(p) ==
  /\ CanReceive(p)
  /\ \E sent \in {<<>>, LiveJar(jar, now)} :
       LET r == Receive(p, "", "signOut", EmptyBody, sent)
       IN Finish(p, Respond(r, 200,
                            [message |-> "User signed out successfully"],
                            <<cookies_clear("token", NoOptions, env)>>))
  /\ Arrival
  /\ UNCHANGED <<users, nextId, env, held, call>>

----------------------------------------------------------------------------
(* auth.routes.js: the handlers written inline in the router *)

\* res.send(text)
Send(r, text) == Respond(r, 200, [text |-> text], <<>>)

\* authRoutes.post('/sign-in', (req, res) => { res.send(...) })
post_sign_in(p, body) ==
  /\ CanReceive(p)
  /\ LET r == Receive(p, "/sign-in", "inline", body, LiveJar(jar, now))
     IN Finish(p, Send(r, "POST /api/auth/sign-in response"))
  /\ Arrival
  /\ UNCHANGED <<users, nextId, env, held, call>>

\* authRoutes.post('/sign-out', (req, res) => { res.send(...) })
post_sign_out(p) ==
  /\ CanReceive(p)
  /\ \E sent \in {<<>>, LiveJar(jar, now)} :
       LET r == Receive(p, "/sign-out", "inline", EmptyBody, sent)
       IN Finish(p, Send(r, "POST /api/auth/sign-out response"))
  /\ Arrival
  /\ UNCHANGED <<users, nextId, env, held, call>>

----------------------------------------------------------------------------
(* app.js: the health check route *)

\* Date.prototype.toISOString of the instant t seconds after the epoch
toISOString(t) == <<"ISO-8601", ToString(t)>>

\* process.uptime(): the seconds since the process started, at instant 0
process_uptime(t) == t - 0

\* app.get('/health', (req, res) => { res.status(200).send({...}) })
get_health(p) ==
  /\ CanReceive(p)
  /\ LET r == Receive(p, "/health", "inline", EmptyBody, LiveJar(jar, now))
     IN Finish(p, Respond(r, 200,
                          [status |-> "OK",
                           timestamp |-> toISOString(now),
                           uptime |-> process_uptime(now)], <<>>))
  /\ Arrival
  /\ UNCHANGED <<users, nextId, env, held, call>>

----------------------------------------------------------------------------
(* jwt.js and cookies.js called directly: the exports of src/utils that no  *)
(* route reaches with arguments of the caller's choosing.  A caller signs  *)
(* payloads, keeps the strings, may alter them, and verifies strings as    *)
(* time passes; it sets cookies with options of its own.                   *)

MaxTokens == 1
MaxTicks == 3

Payloads ==
  { [id |-> 1, email |-> Str_a_x_co, role |-> "user"],
    [id |-> 2, email |-> Str_b_x_co, role |-> "admin"] }

\* strings that do not have the three parts of a token
MalformedTokens == { [raw |-> "not-a-token"] }

\* the options objects a caller passes to cookies.set
CookieOverrides ==
  { NoOptions,
    [maxAge |-> 3600000],
    [path |-> "/api", sameSite |-> "lax"],
    [httpOnly |-> FALSE],
    [httpOnly |-> FALSE, maxAge |-> 3600000] }

NoResult == [ok |-> FALSE, value |-> <<>>, name |-> "", message |-> ""]

NoCall ==
  [fn |-> "", token |-> <<>>, at |-> 0, result |-> NoResult, cookie |-> <<>>]

\* the clock moves on by half the lifetime of a token
ClockStep(e) == JWT_EXPIRES_IN(e) \div 2

Tick ==
  /\ now + ClockStep(env) <= MaxTicks * ClockStep(env)
  /\ now' = now + ClockStep(env)
  /\ UNCHANGED <<users, nextId, env, req, last, jar, started, held, call>>

\* jwttoken.sign(payload)
call_sign(payload) ==
  /\ Cardinality(held) < MaxTokens
  /\ LET token == jwttoken_sign(payload, env, now)
     IN /\ held' = held \cup {token}
        /\ call' = [NoCall EXCEPT !.fn = "jwttoken.sign", !.token = <<token>>,
                                  !.at = now, !.result = Returned(token)]
  /\ UNCHANGED <<users, nextId, now, env, req, last, jar, started>>

\* the strings a holder can make of a token without the secret: the payload
\* with another role or a later exp under the old signature, and the token
\* signed with a key of the holder's own
Alterations(token, e) ==
  { [token EXCEPT !.role = IF token.role = "admin" THEN "user" ELSE "admin"],
    [token EXCEPT !.exp = token.exp + JWT_EXPIRES_IN(e)],
    [token EXCEPT !.sig = HS256("key-of-the-holder",
                                Claims(token, token.iat, token.exp))] }

\* the holder replaces a token it was issued by an altered one
Tamper(token) ==
  /\ token \in held
  /\ jwttoken_verify(token, env, token.iat).ok
  /\ \E altered \in Alterations(token, env) :
       held' = (held \ {token}) \cup {altered}
  /\ UNCHANGED <<users, nextId, now, env, req, last, jar, started, call>>

\* jwttoken.verify(token)
call_verify(token) ==
  /\ token \in held \cup MalformedTokens
  /\ call' = [NoCall EXCEPT !.fn = "jwttoken.verify", !.token = <<token>>,
                            !.at = now,
                            !.result = jwttoken_verify(token, env, now)]
  /\ UNCHANGED <<users, nextId, now, env, req, last, jar, started, held>>

\* cookies.set(res, 'token', value, options)
call_cookies_set(value, options) ==
  /\ value \in held
  /\ call' = [NoCall EXCEPT !.fn = "cookies.set", !.token = <<value>>,
                            !.at = now,
                            !.cookie = <<cookies_set("token", value, options,
                                                     env)>>]
  /\ UNCHANGED <<users, nextId, now, env, req, last, jar, started, held>>

----------------------------------------------------------------------------
(* The system *)

\* process.env as a deployment sets it: a development process that leaves
\* JWT_SECRET unset, a production process that sets it, and a production
\* process that leaves it unset
Environments ==
  { [NODE_ENV |-> "development", JWT_SECRET |-> <<>>, JWT_EXPIRES_IN |-> <<>>],
    [NODE_ENV |-> "production", JWT_SECRET |-> <<"configured-secret">>,
     JWT_EXPIRES_IN |-> <<>>],
    [NODE_ENV |-> "production", JWT_SECRET |-> <<>>, JWT_EXPIRES_IN |-> <<>>] }

Init ==
  /\ users = {}
  /\ nextId = 1
  /\ now = 0
  /\ env \in Environments
  /\ req = [p \in Procs |-> IdleReq]
  /\ last = IdleReq
  /\ jar = <<>>
  /\ started = 0
  /\ held = {}
  /\ call = NoCall

Next ==
  \/ \E p \in Procs, body \in SignUpBodies : signUp(p, body)
  \/ \E p \in Procs : createUser_select(p)
  \/ \E p \in Procs : createUser_hash(p)
  \/ \E p \in Procs : createUser_insert(p)
  \/ \E p \in Procs, body \in SignInBodies : signIn(p, body)
  \/ \E p \in Procs : authenticateUser_select(p)
  \/ \E p \in Procs : authenticateUser_compare(p)
  \/ \E p \in Procs : signOut(p)
  \/ \E p \in Procs, body \in PostedBodies : post_sign_in(p, body)
  \/ \E p \in Procs : post_sign_out(p)
  \/ \E p \in Procs : get_health(p)

Spec == Init /\ [][Next]_vars

\* the utilities under a caller of its own
NextUtils ==
  \/ Tick
  \/ \E payload \in Payloads : call_sign(payload)
  \/ \E token \in held : Tamper(token)
  \/ \E token \in held \cup MalformedTokens : call_verify(token)
  \/ \E value \in held, options \in CookieOverrides :
       call_cookies_set(value, options)

SpecUtils == Init /\ [][NextUtils]_vars

\* the client keeps a copy of the token that its cookie carries
Keep ==
  /\ jar # <<>>
  /\ Cardinality(held) < MaxTokens
  /\ held' = held \cup {jar[1].value}
  /\ UNCHANGED <<users, nextId, now, env, req, last, jar, started, call>>

\* the bodies by which one user signs up and signs in
SessionSignUps ==
  {b \in SignUpBodies : b.email = Str_A_x_co /\ b.password = Str_secret1}

SessionSignIns ==
  {b \in SignInBodies : b.email = Str_a_x_co /\ b.password = Str_secret1}

\* sessions: sign-up, sign-in and sign-out of a client that keeps its tokens
\* and has them verified as time passes
NextSession ==
  \/ \E p \in Procs, body \in SessionSignUps : signUp(p, body)
  \/ \E p \in Procs : createUser_select(p)
  \/ \E p \in Procs : createUser_hash(p)
  \/ \E p \in Procs : createUser_insert(p)
  \/ \E p \in Procs, body \in SessionSignIns : signIn(p, body)
  \/ \E p \in Procs : authenticateUser_select(p)
  \/ \E p \in Procs : authenticateUser_compare(p)
  \/ \E p \in Procs : signOut(p)
  \/ Keep
  \/ Tick
  \/ \E token \in held : call_verify(token)

SpecSession == Init /\ [][NextSession]_vars

----------------------------------------------------------------------------
(* Properties *)

Finished(r, handler) == r.pc = "done" /\ r.handler = handler

\* slot p completes the await it is at in this step
Completes(p, pc) == req[p].pc = pc /\ req'[p].pc # pc

UniqueEmail(tbl) == \A r1, r2 \in tbl : r1.email = r2.email => r1 = r2

\* C1: whatever the interleaving of sign-ups, no two rows of users ever have
\* the same email, and an insert for an email that a row already has fails
\* with the unique violation and leaves the table as it was.
C1_EmailUniqueInStore ==
  [][/\ UniqueEmail(users')
     /\ \A p \in Procs :
          ( /\ Completes(p, "createUser_insert")
            /\ ViolatesUnique(users, req[p].data.email) )
          => /\ users' = users
             /\ last'.error \in {ERR_UNIQUE, ERR_STORE}
             /\ last'.user = <<>>
             /\ last'.status # 201]_vars

\* a sign-up passed the pre-check, then lost the race: its insert was refused
\* and the table holds the one row of the winner
C1_Witness ==
  /\ Finished(last, "signUp")
  /\ last.error = ERR_UNIQUE
  /\ last.existingUser = <<>>
  /\ Cardinality(users) = 1

\* C2: a sign-up whose insert is refused by the unique index (it passed the
\* pre-check concurrently with the winner) is answered 409 as a duplicate
\* email, not forwarded as an internal error.
C2_RaceLoserGets409 ==
  (Finished(last, "signUp") /\ last.error = ERR_UNIQUE)
    => (last.status = 409 /\ last.nextErr = "")

\* the credentials (email, password) are valid for sign-up and are those row
\* was registered with: the email normalises to the row's, the password is
\* the one its hash was made from
RegisteredWith(row, email, password) ==
  /\ signUpSchema([name |-> Str_Alice, email |-> email,
                   password |-> password, role |-> NoRole]).success
  /\ trim(toLowerCase(email)) = row.email
  /\ \E salt \in Salts : row.password = hashPassword(password, salt)

\* the primitives under authenticateUser (the store, bcrypt) did not fail
NoPrimitiveFailure(r) == r.error \notin {ERR_STORE, ERR_COMPARE, ERR_HASHING}

PublicUserFields == {"id", "name", "email", "role", "createdAt"}

\* C3: a sign-in that arrives after a sign-up has created a row, with the
\* email and password of that sign-up, succeeds (the store and bcrypt not
\* failing) and authenticateUser returns exactly (id, name, email, role,
\* createdAt) of that row, without a password field.
C3_RegisterThenAuthenticate ==
  \A row \in users :
    ( /\ Finished(last, "signIn")
      /\ row.id < last.epoch
      /\ RegisteredWith(row, last.body.email, last.body.password)
      /\ NoPrimitiveFailure(last) )
    => /\ last.status = 200
       /\ last.error = ""
       /\ last.user = <<[id |-> row.id, name |-> row.name,
                         email |-> row.email, role |-> row.role,
                         createdAt |-> row.created_at]>>
       /\ DOMAIN last.user[1] = PublicUserFields

\* a sign-in with the upper-case spelling of a registered email and the
\* registered password has succeeded
C3_Witness ==
  /\ Finished(last, "signIn")
  /\ last.status = 200
  /\ \E row \in users :
       /\ row.id < last.epoch
       /\ RegisteredWith(row, last.body.email, last.body.password)
       /\ last.user # <<>>
       /\ last.user[1].id = row.id

\* the request passed the handler's validation
Validated(r) == r.data # EmptyBody

WrongPassword(r) ==
  \E row \in users :
    /\ row.id < r.epoch
    /\ row.email = r.data.email
    /\ ~(\E salt \in Salts : row.password = hashPassword(r.data.password, salt))

UnknownEmail(r) == ~(\E row \in users : row.email = r.data.email)

\* what the caller of a refused sign-in observes
InvalidCredentialsResponse(r) ==
  /\ r.error = ERR_INVALID
  /\ r.status = 401
  /\ r.resBody = [error |-> "Invalid email or password"]
  /\ r.setCookie = <<>>
  /\ r.nextErr = ""
  /\ r.user = <<>>

\* C4: a sign-in with a registered email and a wrong password and a sign-in
\* with an email no user has end the same way: authenticateUser throws
\* 'Invalid email or password' and signIn answers 401 with that one body, so
\* the response does not tell the two cases apart.
C4_NoCredentialOracle ==
  ( /\ Finished(last, "signIn")
    /\ Validated(last)
    /\ NoPrimitiveFailure(last)
    /\ (WrongPassword(last) \/ UnknownEmail(last)) )
  => InvalidCredentialsResponse(last)

\* a sign-in with a registered email and another password has been refused,
\* in a store that has no user for one of the other emails tried
C4_Witness ==
  /\ Finished(last, "signIn")
  /\ Validated(last)
  /\ WrongPassword(last)
  /\ last.status = 401
  /\ \E b \in SignInBodies :
       ~(\E row \in users : row.email = signInSchema(b).data.email)

Plaintexts == {b.password : b \in SignUpBodies \cup SignInBodies}

HashOutputs == {hashPassword(pw, salt) : pw \in Plaintexts, salt \in Salts}

\* C5: every stored password is an output of hashPassword and not a
\* submitted plaintext, and neither the value the service returned nor the
\* body of a sign-up or sign-in response has a password field.
C5_PasswordNeverPlaintext ==
  /\ \A row \in users :
       row.password \in HashOutputs /\ row.password \notin Plaintexts
  /\ \A r \in {last} \cup {req[p] : p \in Procs} :
       /\ r.user # <<>> => "password" \notin DOMAIN r.user[1]
       /\ r.status \in {200, 201} /\ r.handler \in {"signUp", "signIn"}
            => /\ "password" \notin DOMAIN r.resBody
               /\ "password" \notin DOMAIN r.resBody.user

\* a row is stored, and both a sign-up and a sign-in have returned a user
C5_Witness ==
  /\ users # {}
  /\ Finished(last, "signIn")
  /\ last.status = 200
  /\ last.user # <<>>

\* the credentials of a posted body are those of a stored row
Matches(row, body) ==
  /\ row.email = trim(toLowerCase(body.email))
  /\ comparePassword(body.password, row.password)

\* the (id, email, role) a token was signed from
TokenClaims(token) ==
  [id |-> token.id, email |-> token.email, role |-> token.role]

\* the response sets the cookie 'token' to a token signed from row
SetsTokenFor(r, row) ==
  /\ r.setCookie # <<>>
  /\ r.setCookie[1].name = "token"
  /\ r.setCookie[1].value # <<>>
  /\ TokenClaims(r.setCookie[1].value[1])
       = [id |-> row.id, email |-> row.email, role |-> row.role]

\* the response body carries {id, name, email, role} of row
BodyShows(r, row) ==
  /\ "user" \in DOMAIN r.resBody
  /\ r.resBody.user = [id |-> row.id, name |-> row.name,
                       email |-> row.email, role |-> row.role]

\* C6: POST /api/v1/auth/sign-out answers 200 and clears the cookie 'token',
\* with or without a cookie on the request.
C6_SignOutRouteClearsCookie ==
  (last.pc = "done" /\ last.route = "/sign-out")
  => /\ last.status = 200
     /\ last.setCookie # <<>>
     /\ last.setCookie[1].name = "token"
     /\ last.setCookie[1].value = <<>>

\* C7: POST /api/v1/auth/sign-in with credentials that match no stored user
\* answers 401.
C7_SignInRouteRefuses ==
  ( /\ last.pc = "done"
    /\ last.route = "/sign-in"
    /\ ~(\E row \in users : Matches(row, last.body)) )
  => last.status = 401

\* C8: POST /api/v1/auth/sign-in with the credentials of a stored user
\* answers 200 with that user's {id, name, email, role} and sets the cookie
\* 'token' signed from that user's id, email and role.
C8_SignInRouteAccepts ==
  \A row \in users :
    ( /\ last.pc = "done"
      /\ last.route = "/sign-in"
      /\ row.id < last.epoch
      /\ Matches(row, last.body) )
    => /\ last.status = 200
       /\ BodyShows(last, row)
       /\ SetsTokenFor(last, row)

\* C9: a successful POST /api/v1/auth/sign-up answers 201 with {id, name,
\* email, role} of the row it inserted and sets the cookie 'token' signed
\* from that row's id, email and role.
C9_SignUpResponse ==
  ( /\ Finished(last, "signUp")
    /\ last.route = "/sign-up"
    /\ (last.user # <<>> \/ last.status = 201) )
  => \E row \in users :
       /\ last.user # <<>>
       /\ row.id = last.user[1].id
       /\ row.name = last.data.name
       /\ row.email = last.data.email
       /\ row.role = last.data.role
       /\ row.password = last.passwordHash[1]
       /\ last.status = 201
       /\ last.resBody.message = "User registered"
       /\ BodyShows(last, row)
       /\ SetsTokenFor(last, row)

\* a sign-up asking for the role admin has been answered 201
C9_Witness ==
  /\ Finished(last, "signUp")
  /\ last.status = 201
  /\ last.data.role = "admin"
  /\ \E row \in users : row.id = last.user[1].id /\ row.role = "admin"

\* C10: when createUser's lookup finds a row with the email (the store not
\* failing), createUser throws 'User with this email already exists' without
\* hashing or inserting, signUp answers 409, and the store is unchanged.
C10_DuplicateRefusedBeforeInsert ==
  [][\A p \in Procs :
       ( /\ Completes(p, "createUser_select")
         /\ \E row \in users : row.email = req[p].data.email
         /\ ~(req'[p].pc = "idle" /\ last'.error = ERR_STORE) )
       => /\ req'[p].pc = "idle"
          /\ Finished(last', "signUp")
          /\ last'.error = ERR_DUPLICATE
          /\ last'.status = 409
          /\ last'.resBody = [error |-> "Email already exists"]
          /\ last'.passwordHash = <<>>
          /\ last'.user = <<>>
          /\ last'.setCookie = <<>>
          /\ users' = users
          /\ nextId' = nextId]_vars

\* a sign-up for a registered email has been answered 409
C10_Witness ==
  /\ Finished(last, "signUp")
  /\ last.error = ERR_DUPLICATE
  /\ last.status = 409
  /\ \E row \in users : row.email = last.data.email /\ row.id < last.epoch

\* the body breaks a rule of sign-up: name of 2 to 255 characters, email an
\* address of at most 255 characters, password of 6 to 128 characters, role
\* absent or one of user and admin
BreaksSignUpRule(body) ==
  \/ Len(body.name) < 2 \/ Len(body.name) > 255
  \/ ~IsEmail(body.email) \/ Len(body.email) > 255
  \/ Len(body.password) < 6 \/ Len(body.password) > 128
  \/ body.role \notin {"user", "admin", NoRole}

\* the request that arrives in slot p in this step
Arrived(p) == IF req'[p].pc # "idle" THEN req'[p] ELSE last'

\* C11: a sign-up whose body breaks a validation rule is answered 400 in the
\* step it arrives in, before createUser is called: the request never waits
\* on a lookup, a hash or an insert, the table and the id sequence are as
\* they were, and the response sets no cookie.
C11_InvalidSignUpRefused ==
  [][/\ \A p \in Procs :
          ( /\ CanReceive(p)
            /\ started' = started + 1
            /\ Arrived(p).handler = "signUp"
            /\ BreaksSignUpRule(Arrived(p).body) )
          => /\ req'[p].pc = "idle"
             /\ last'.pc = "done"
             /\ last'.status = 400
             /\ last'.resBody.errors = "Validation failed"
             /\ last'.data = EmptyBody
             /\ last'.existingUser = <<>>
             /\ last'.passwordHash = <<>>
             /\ last'.user = <<>>
             /\ last'.setCookie = <<>>
             /\ last'.nextErr = ""
             /\ users' = users
             /\ nextId' = nextId
     /\ \A p \in Procs :
          req'[p].handler = "signUp" => ~BreaksSignUpRule(req'[p].body)]_vars

\* a sign-up asking for a role that is neither user nor admin has been
\* answered 400 for its role alone, while the table holds a row
C11_Witness ==
  /\ Finished(last, "signUp")
  /\ last.status = 400
  /\ last.body.role = "root"
  /\ last.resBody.details = {"role"}
  /\ users # {}

\* C12: every cookie that cookies.set writes has httpOnly = true, whatever
\* options object the caller passes.
C12_SetCookieAlwaysHttpOnly ==
  (call.fn = "cookies.set" /\ call.cookie # <<>>)
    => call.cookie[1].options.httpOnly = TRUE

\* the string is what jwttoken.sign made of payload in this process, as it
\* was returned
SignedFrom(token, payload) ==
  /\ DOMAIN token = TokenFields
  /\ token = jwttoken_sign(payload, env, token.iat)

\* the last call was jwttoken.verify
Verified == call.fn = "jwttoken.verify" /\ call.token # <<>>

\* C13: jwttoken.verify of a token that jwttoken.sign produced from a payload,
\* unaltered and under the same secret, returns the id, email and role of that
\* payload when called before the token's exp, and throws when called after
\* it.
C13_VerifyBeforeAndAfterExpiry ==
  \A payload \in Payloads :
    (Verified /\ SignedFrom(call.token[1], payload))
    => /\ call.at < call.token[1].exp
            => /\ call.result.ok
               /\ call.result.value # <<>>
               /\ TokenClaims(call.result.value[1]) = payload
       /\ call.at > call.token[1].exp
            => /\ ~call.result.ok
               /\ call.result.value = <<>>

\* an unaltered token has been verified after its exp and refused
C13_Witness ==
  /\ Verified
  /\ \E payload \in Payloads : SignedFrom(call.token[1], payload)
  /\ call.at > call.token[1].exp
  /\ ~call.result.ok

\* C14: two calls of jwttoken.verify that fail, whatever the reason (an
\* expired token, an altered token, a string that is no token), give the
\* caller the same outcome: the failure of the call just made is the failure
\* any other failing string would get now.
C14_SingleFailureOutcome ==
  \A token \in held \cup MalformedTokens :
    ( /\ Verified
      /\ ~call.result.ok
      /\ ~jwttoken_verify(token, env, now).ok )
    => jwttoken_verify(token, env, now) = call.result

\* C15: no step deletes a row of users or changes one (its role included):
\* the table changes only when the insert of a createUser completes, and then
\* by one row with a new id, every earlier row staying as it was; the steps
\* of signIn and authenticateUser, of signOut and of the inline routes leave
\* the table as it is.
C15_StoreOnlyGrowsByRegister ==
  [][/\ users \subseteq users'
     /\ users' # users
          => /\ \E p \in Procs : Completes(p, "createUser_insert")
             /\ Finished(last', "signUp")
             /\ Cardinality(users' \ users) = 1
             /\ \A new \in users' \ users, old \in users : new.id # old.id
     /\ \A p \in Procs :
          req[p].handler \in {"signIn", "signOut", "inline"} /\ req'[p] # req[p]
            => users' = users
     /\ last' # last /\ last'.handler \in {"signIn", "signOut", "inline"}
          => users' = users]_vars

\* a second sign-up has added its row beside the row of the first, which is
\* still there with the role it was given
C15_Witness ==
  /\ Cardinality(users) = 2
  /\ Finished(last, "signUp")
  /\ last.status = 201
  /\ \E row \in users : row.id < last.user[1].id /\ row.role = "admin"

\* C16: a sign-in during which comparePassword throws is answered like a
\* wrong password, 401 'Invalid email or password', and is not forwarded as
\* an internal error.
C16_ComparisonFailureIs401 ==
  (Finished(last, "signIn") /\ last.error = ERR_COMPARE)
    => /\ last.status = 401
       /\ last.resBody = [error |-> "Invalid email or password"]
       /\ last.nextErr = ""

\* the email is written with upper-case letters or blanks around it, and is
\* an address once lowercased and trimmed
NeedsNormalizing(email) ==
  /\ email # trim(toLowerCase(email))
  /\ IsEmail(trim(toLowerCase(email)))

\* C17: a sign-up whose email is given in upper case with blanks around it
\* (as "ALICE@x.com "), its other fields valid, the address not yet
\* registered and no primitive failing, is answered 201 with the lowercased,
\* trimmed email, and a row with that email is stored.
C17_NormalizedSignUpSucceeds ==
  ( /\ Finished(last, "signUp")
    /\ NeedsNormalizing(last.body.email)
    /\ ~BreaksSignUpRule([last.body EXCEPT
                            !.email = trim(toLowerCase(last.body.email))])
    /\ last.error \notin {ERR_DUPLICATE, ERR_UNIQUE, ERR_STORE, ERR_HASHING} )
  => /\ last.status = 201
     /\ BodyShows(last, [id |-> last.user[1].id, name |-> last.body.name,
                         email |-> trim(toLowerCase(last.body.email)),
                         role |-> "user"])
     /\ \E row \in users : row.email = trim(toLowerCase(last.body.email))

Normalized(email) == trim(toLowerCase(email))

\* C18: no two rows of users have emails that are equal after lowercasing
\* and trimming: every createUser looks up and inserts the normalized form of
\* the submitted email, and every stored email is in that form.
C18_EmailUniqueCaseInsensitive ==
  /\ \A r1, r2 \in users :
       Normalized(r1.email) = Normalized(r2.email) => r1 = r2
  /\ \A row \in users : row.email = Normalized(row.email)
  /\ \A p \in Procs :
       req[p].pc \in {"createUser_select", "createUser_hash",
                      "createUser_insert"}
         => req[p].data.email = Normalized(req[p].body.email)

\* a sign-up with the upper-case spelling of a registered address has been
\* refused as a duplicate of the row that holds the lower-case spelling
C18_Witness ==
  /\ Finished(last, "signUp")
  /\ last.body.email = Str_A_x_co
  /\ last.error = ERR_DUPLICATE
  /\ Cardinality(users) = 1
  /\ \E row \in users : row.email = Str_a_x_co /\ row.name = Str_Bob

\* C19: createUser is atomic against the store: while a request is between
\* the completion of its lookup and the completion of its insert, no step of
\* another request changes the table.
C19_RegisterIsAtomic ==
  [][\A p \in Procs :
       ( /\ req[p].pc \in {"createUser_hash", "createUser_insert"}
         /\ req'[p] = req[p] )
       => users' = users]_vars

\* C20: a production process that has no JWT_SECRET configured signs no token
\* with the built-in default secret.
C20_NoDefaultSecretInProduction ==
  ( /\ env.NODE_ENV = "production"
    /\ env.JWT_SECRET = <<>>
    /\ last.setCookie # <<>>
    /\ last.setCookie[1].value # <<>> )
  => last.setCookie[1].value[1].sig.key # DEFAULT_JWT_SECRET

\* the role a sign-up body asks for: its role, or user when it has none
RequestedRole(body) == IF body.role = NoRole THEN "user" ELSE body.role

\* C21: the row a sign-up creates has the role of the request when that is
\* user or admin, and user when the request has no role; every row of users
\* has a role of {user, admin}.
C21_StoredRoleIsRequestedRole ==
  /\ \A row \in users : row.role \in {"user", "admin"}
  /\ (Finished(last, "signUp") /\ last.user # <<>>)
       => \E row \in users :
            /\ row.id = last.user[1].id
            /\ last.body.role \in {"user", "admin", NoRole}
            /\ row.role = RequestedRole(last.body)

\* a sign-up that gave no role has created its row with the role user
C21_Witness ==
  /\ Finished(last, "signUp")
  /\ last.user # <<>>
  /\ last.body.role = NoRole
  /\ \E row \in users : row.id = last.user[1].id /\ row.role = "user"

\* C22: GET /health answers 200 with a body of exactly the fields status,
\* timestamp and uptimeSeconds, whatever the table holds.
C22_HealthResponse ==
  (last.pc = "done" /\ last.route = "/health")
    => /\ last.status = 200
       /\ DOMAIN last.resBody = {"status", "timestamp", "uptimeSeconds"}

\* C23: when hashPassword throws in createUser, the request ends there with
\* 'Hashing Error' forwarded by signUp: it holds no hash and never reaches the
\* insert, the table and the id sequence are as they were, no response or
\* cookie is written, and no row ever holds a submitted password.
C23_HashingFailureInsertsNothing ==
  [][/\ \A p \in Procs :
          (Completes(p, "createUser_hash") /\ req'[p].pc # "createUser_insert")
          => /\ req'[p].pc = "idle"
             /\ Finished(last', "signUp")
             /\ last'.error = ERR_HASHING
             /\ last'.nextErr = ERR_HASHING
             /\ last'.passwordHash = <<>>
             /\ last'.user = <<>>
             /\ last'.status = 0
             /\ last'.setCookie = <<>>
             /\ users' = users
             /\ nextId' = nextId
     /\ \A p \in Procs :
          req'[p].pc = "createUser_insert"
            => req'[p].passwordHash # <<req'[p].data.password>>
     /\ \A row \in users' : row.password \notin Plaintexts]_vars

\* a sign-up has ended in 'Hashing Error' while the table holds the row of
\* an earlier sign-up and nothing else
C23_Witness ==
  /\ Finished(last, "signUp")
  /\ last.error = ERR_HASHING
  /\ Cardinality(users) = 1
  /\ \A row \in users : row.id < last.epoch

\* C24: a failed store call ends the request: no request in flight has met
\* an error, so nothing is attempted after one; a request that met the
\* store's error is forwarded with that error by next(e), with no response,
\* user or cookie; a sign-up whose lookup failed holds no hash, and a
\* sign-in whose lookup failed holds no row to compare a password with.
C24_StoreFailureNotRetried ==
  /\ \A p \in Procs : req[p].error = ""
  /\ (last.pc = "done" /\ last.error = ERR_STORE)
       => /\ last.handler \in {"signUp", "signIn"}
          /\ last.nextErr = ERR_STORE
          /\ last.status = 0
          /\ last.resBody = NoBody
          /\ last.user = <<>>
          /\ last.setCookie = <<>>
          /\ last.handler = "signIn" => last.existingUser = <<>>

\* the lookup of a sign-up has failed: the error was forwarded, the sign-up
\* holds no hash and the table is empty
C24_Witness ==
  /\ Finished(last, "signUp")
  /\ last.error = ERR_STORE
  /\ last.passwordHash = <<>>
  /\ last.nextErr = ERR_STORE
  /\ users = {}

\* C25: every row of users has a name that, trimmed of surrounding blanks,
\* is 2 to 255 characters long.
C25_StoredNameLength ==
  \A row \in users :
    Len(trim(row.name)) >= 2 /\ Len(trim(row.name)) <= 255

\* C26: a sign-in whose password is shorter than 6 or longer than 128
\* characters is answered 400 by validation, without authenticateUser being
\* called for it.
C26_SignInPasswordLength ==
  /\ \A p \in Procs :
       req[p].handler = "signIn"
         => Len(req[p].body.password) >= 6 /\ Len(req[p].body.password) <= 128
  /\ ( /\ Finished(last, "signIn")
       /\ (Len(last.body.password) < 6 \/ Len(last.body.password) > 128) )
     => /\ last.status = 400
        /\ last.data = EmptyBody

\* the request ended in one response and no next(e), or in next(e) and no
\* response
OneOutcome(r) ==
  \/ /\ r.status \in {400, 401, 409, 200, 201}
     /\ r.resBody # NoBody
     /\ r.nextErr = ""
  \/ /\ r.status = 0
     /\ r.resBody = NoBody
     /\ r.setCookie = <<>>
     /\ r.nextErr # ""

\* the awaits of a handler, in the order it reaches them
Rank(pc) ==
  CASE pc = "idle" -> 0
    [] pc \in {"createUser_select", "authenticateUser_select"} -> 1
    [] pc \in {"createUser_hash", "authenticateUser_compare"} -> 2
    [] pc = "createUser_insert" -> 3
    [] pc = "done" -> 4

\* the continuation of the await that slot p is at
Continue(p) ==
  \/ createUser_select(p) \/ createUser_hash(p) \/ createUser_insert(p)
  \/ authenticateUser_select(p) \/ authenticateUser_compare(p)

\* C27: every call of signUp, signIn and signOut ends, and in exactly one
\* outcome.  A request in flight has written nothing yet, its continuation
\* can always run, and each of its steps takes it to a later await or to its
\* end; it ends either in one response (400, 401, 409, 200 or 201) or in
\* one next(e); an error other than the duplicate-email and the
\* invalid-credentials message ends in next(e) with that error and in no
\* response.
C27_ExactlyOneOutcome ==
  [][/\ \A p \in Procs :
          req'[p].pc # "idle"
            => /\ req'[p].status = 0
               /\ req'[p].resBody = NoBody
               /\ req'[p].nextErr = ""
               /\ (ENABLED Continue(p))'
     /\ \A p \in Procs :
          (req[p].pc # "idle" /\ req'[p] # req[p])
            => \/ Rank(req'[p].pc) > Rank(req[p].pc)
               \/ req'[p].pc = "idle" /\ last'.pc = "done"
     /\ last'.handler \in {"signUp", "signIn", "signOut"}
          => /\ last'.pc = "done"
             /\ OneOutcome(last')
             /\ last'.error \notin {"", ERR_DUPLICATE, ERR_INVALID}
                  => /\ last'.nextErr = last'.error
                     /\ last'.status = 0
                     /\ last'.user = <<>>]_vars

\* a sign-in has ended in next(e) with the error of comparePassword, which
\* signIn does not map, after a sign-up ended in its 201
C27_Witness ==
  /\ Finished(last, "signIn")
  /\ last.error = ERR_COMPARE
  /\ last.nextErr = ERR_COMPARE
  /\ last.status = 0
  /\ users # {}

\* C28: signUp and signIn write the cookie 'token' only on their success
\* path: a request in flight or ended without 201 or 200 has set no cookie,
\* and a cookie that was set carries a token whose id, email and role are
\* those of a row that was in users when the token was signed.
C28_TokenOnlyAfterSuccess ==
  /\ \A p \in Procs : req[p].setCookie = <<>>
  /\ last.handler \in {"signUp", "signIn"}
       => /\ (last.status \notin {200, 201} \/ last.error # "")
               => last.setCookie = <<>>
          /\ last.setCookie # <<>>
               => /\ last.user # <<>>
                  /\ last.setCookie[1].name = "token"
                  /\ last.setCookie[1].value # <<>>
                  /\ \E row \in users :
                       /\ SetsTokenFor(last, row)
                       /\ row.created_at <= last.setCookie[1].value[1].iat

\* a sign-in has set a token for a row that a sign-up had stored before
C28_Witness ==
  /\ Finished(last, "signIn")
  /\ last.status = 200
  /\ \E row \in users :
       /\ SetsTokenFor(last, row)
       /\ row.created_at < last.setCookie[1].value[1].iat

\* the token was signed by this process and is as it was signed
Issued(token) ==
  /\ DOMAIN token = TokenFields
  /\ token = jwttoken_sign(TokenClaims(token), env, token.iat)

\* the seconds a cookie lives
CookieSeconds(cookie) == cookie.options.maxAge \div 1000

\* C29: signOut revokes no token.  A token that signUp or signIn issued
\* verifies, with its claims, at any instant before its exp, whether or not
\* a sign-out has been answered since; and the token outlives the cookie that
\* carried it: its lifetime (one day by default) is longer than the cookie's
\* 15 minutes.
C29_SignOutDoesNotRevoke ==
  /\ (Verified /\ Issued(call.token[1]) /\ call.at < call.token[1].exp)
       => /\ call.result.ok
          /\ TokenClaims(call.result.value[1]) = TokenClaims(call.token[1])
  /\ ( /\ last.handler \in {"signUp", "signIn"}
       /\ last.setCookie # <<>>
       /\ last.setCookie[1].value # <<>> )
     => /\ CookieSeconds(last.setCookie[1]) = 15 * 60
        /\ last.setCookie[1].value[1].exp - last.setCookie[1].value[1].iat
             > CookieSeconds(last.setCookie[1])

\* signOut has cleared the cookie, and the token the cookie had carried has
\* been verified after that, later than the cookie would have lived, and
\* accepted
C29_Witness ==
  /\ Finished(last, "signOut")
  /\ last.setCookie # <<>>
  /\ last.setCookie[1].value = <<>>
  /\ jar = <<>>
  /\ Verified
  /\ call.at = now
  /\ Issued(call.token[1])
  /\ call.at > call.token[1].iat + 15 * 60
  /\ call.result.ok
  /\ \E row \in users : TokenClaims(call.token[1])
                          = [id |-> row.id, email |-> row.email,
                             role |-> row.role]

====
